---- MODULE Spec2Model ----
(***************************************************************************)
(* GPU price tracker: the collector (track_prices_efficient.py) and the    *)
(* viewer (view_prices.py) over the summary directory of JSONL logs.       *)
(*                                                                         *)
(* Money is held in cents (integers); a per-GPU price is the exact         *)
(* rational price/gpu_count, and round(x, 2) rounds it to whole cents,     *)
(* ties to even.  Finite prices are multiples of PriceUnit cents and GPU   *)
(* counts are 1 or 2, so every per-GPU price is a binary fraction of a     *)
(* dollar, held exactly by a float, and round() rounds it as Round2 does.  *)
(* A mean is the exact quotient; where it falls on a decimal tie that no   *)
(* float holds, round() follows the float and Round2 the even cent.        *)
(* Time is held in seconds (UTC).                                          *)
(***************************************************************************)
EXTENDS Integers, Sequences, FiniteSets, TLC

VARIABLES
    files,           \* summary directory: file name -> sequence of JSON lines
    full_snapshots,  \* full snapshot directory: file name -> document
    clock,           \* UTC wall clock, seconds
    runs,            \* collector processes: run id -> locals of main()
    fetched,         \* history: run id -> (model -> outcome of its fetch)
    appended,        \* history: key -> snapshots handed to save_snapshot
    agg_in,          \* argument of a stand-alone aggregate_statistics call
    agg_out,         \* its outcome
    view_out         \* what the last viewer command printed

vars == <<files, full_snapshots, clock, runs, fetched, appended,
          agg_in, agg_out, view_out>>

(***************************************************************************)
(* Bounds of the model.                                                    *)
(***************************************************************************)
MaxPriceSteps == 2   \* finite prices are PriceUnit * (1 .. MaxPriceSteps)
MaxConfigs == 2      \* length of a general aggregator input
MaxPrices == 4       \* length of an all-finite aggregator input
PriceUnit == 5 * 5   \* cents; a quarter dollar is a binary fraction

(***************************************************************************)
(* Python values.                                                          *)
(***************************************************************************)
NONE == "<None>"
INF == [k |-> "inf", v |-> 0]
NULL == [k |-> "null", v |-> 0]
Fin(cents) == [k |-> "fin", v |-> cents]
FinitePrices == {Fin(PriceUnit * s) : s \in 1 .. MaxPriceSteps}

Min2(a, b) == IF a <= b THEN a ELSE b

SeqsUpTo(S, n) == UNION {[1 .. m -> S] : m \in 0 .. n}

(***************************************************************************)
(* GPU_TYPES and SOCKET_TYPES_TO_TRACK.                                    *)
(***************************************************************************)
GPU_TYPES ==
    << "B200_180GB", "H200_96GB", "H200_141GB", "H100_80GB",
       "GH200_96GB", "GH200_480GB", "GH200_624GB", "A100_80GB" >>

SOCKET_TYPES_TO_TRACK ==
    [g \in {"H100_80GB", "A100_80GB"} |->
        IF g = "H100_80GB" THEN <<"SXM5", "PCIe">> ELSE <<"SXM4", "PCIe">>]

(***************************************************************************)
(* Exact rationals n/d with d > 0, for price / gpu_count and the means.    *)
(***************************************************************************)
RatLess(a, b) == a.n * b.d < b.n * a.d
RatAdd(a, b) == [n |-> a.n * b.d + b.n * a.d, d |-> a.d * b.d]
RatDivInt(a, k) == [n |-> a.n, d |-> a.d * k]
RatMulInt(a, k) == [n |-> a.n * k, d |-> a.d]

RECURSIVE RatSum(_)
RatSum(s) == IF s = <<>> THEN [n |-> 0, d |-> 1]
             ELSE RatAdd(s[1], RatSum(Tail(s)))

\* min(): the first element no other element is below
RatMinIndex(s) ==
    CHOOSE i \in 1 .. Len(s) :
        /\ \A j \in 1 .. Len(s) : ~RatLess(s[j], s[i])
        /\ \A j \in 1 .. i - 1 : RatLess(s[i], s[j])
RatMin(s) == s[RatMinIndex(s)]
RatMax(s) ==
    s[CHOOSE i \in 1 .. Len(s) : \A j \in 1 .. Len(s) : ~RatLess(s[i], s[j])]

\* round(x, 2): the nearest whole cent, ties to the even cent
Round2(r) ==
    LET q == r.n \div r.d
        rem == r.n % r.d
    IN  IF 2 * rem < r.d THEN q
        ELSE IF 2 * rem > r.d THEN q + 1
        ELSE IF q % 2 = 0 THEN q ELSE q + 1

\* sorted(): ascending, stable
RECURSIVE InsertSorted(_, _)
InsertSorted(s, x) ==
    IF s = <<>> THEN <<x>>
    ELSE IF RatLess(x, s[1]) THEN <<x>> \o s
    ELSE <<s[1]>> \o InsertSorted(Tail(s), x)
RECURSIVE Sorted(_)
Sorted(s) == IF s = <<>> THEN <<>>
             ELSE InsertSorted(Sorted(SubSeq(s, 1, Len(s) - 1)), s[Len(s)])

(***************************************************************************)
(* calculate_percentile(values, percentile)                                *)
(***************************************************************************)
PercentileIndex_FromTop(n, percentile) == n - 1 - ((n * percentile) \div 100)
PercentileIndex(n, percentile) == (n * percentile) \div 100

calculate_percentile(values, percentile) ==
    IF values = <<>> THEN 0
    ELSE LET idx == PercentileIndex(Len(values), percentile)
         IN  Round2(values[Min2(idx, Len(values) - 1) + 1])

(***************************************************************************)
(* aggregate_statistics(configurations)                                    *)
(***************************************************************************)
NoData == [tag |-> "none"]
Raised(exc) == [tag |-> "raise", exc |-> exc]

PricePerGpu(c) == [n |-> c.price_per_hour.v, d |-> c.gpu_count]
PricesPerGpu(configs) == [k \in 1 .. Len(configs) |-> PricePerGpu(configs[k])]

\* line 57: the filter keeps every record whose price differs from inf
IsValidConfig(c) == c.price_per_hour # INF
ValidConfigs(configurations) == SelectSeq(configurations, IsValidConfig)

PriceStats(prices) ==
    [min    |-> Round2(RatMin(prices)),
     p10    |-> calculate_percentile(prices, 10),
     p25    |-> calculate_percentile(prices, 25),
     median |-> calculate_percentile(prices, 50),
     p75    |-> calculate_percentile(prices, 75),
     p90    |-> calculate_percentile(prices, 90),
     max    |-> Round2(RatMax(prices)),
     mean   |-> Round2(RatDivInt(RatSum(prices), Len(prices)))]

CountStatus(valid, status) ==
    Len(SelectSeq(valid, LAMBDA c : c.stock_status = status))

Availability(valid) ==
    [total     |-> Len(valid),
     available |-> CountStatus(valid, "Available"),
     low       |-> CountStatus(valid, "Low"),
     medium    |-> CountStatus(valid, "Medium"),
     high      |-> CountStatus(valid, "High")]

ProviderStats(valid) ==
    [p \in {valid[i].provider : i \in 1 .. Len(valid)} |->
        LET provider_prices ==
                PricesPerGpu(SelectSeq(valid, LAMBDA c : c.provider = p))
        IN  [count |-> Len(provider_prices),
             min   |-> Round2(RatMin(provider_prices)),
             avg   |-> Round2(RatDivInt(RatSum(provider_prices),
                                        Len(provider_prices)))]]

ConfigKey(count) == ToString(count) \o "x"

ConfigStats(valid) ==
    LET counts == {valid[i].gpu_count : i \in 1 .. Len(valid)}
    IN  [key \in {ConfigKey(n) : n \in counts} |->
            LET count == CHOOSE n \in counts : ConfigKey(n) = key
                configs == SelectSeq(valid, LAMBDA c : c.gpu_count = count)
                prices_per_gpu == PricesPerGpu(configs)
                min_config == configs[RatMinIndex(prices_per_gpu)]
                avg == RatDivInt(RatSum(prices_per_gpu), Len(prices_per_gpu))
            IN  [count       |-> Len(configs),
                 min_per_gpu |-> Round2(PricePerGpu(min_config)),
                 avg_per_gpu |-> Round2(avg),
                 min_total   |-> min_config.price_per_hour.v,
                 avg_total   |-> Round2(RatMulInt(avg, count)),
                 best_deal   |-> [provider |-> min_config.provider,
                                  location |-> min_config.location,
                                  socket   |-> min_config.socket,
                                  spot     |-> min_config.is_spot]]]

aggregate_statistics(configurations) ==
    IF configurations = <<>> THEN NoData
    ELSE LET valid_configs == ValidConfigs(configurations)
         IN  IF valid_configs = <<>> THEN NoData
             \* line 62: None / int raises TypeError
             ELSE IF \E i \in 1 .. Len(valid_configs) :
                        valid_configs[i].price_per_hour = NULL
                  THEN Raised("TypeError")
             ELSE [tag          |-> "stats",
                   price_stats  |-> PriceStats(Sorted(PricesPerGpu(valid_configs))),
                   availability |-> Availability(valid_configs),
                   by_provider  |-> ProviderStats(valid_configs),
                   by_config    |-> ConfigStats(valid_configs)]

(***************************************************************************)
(* A configuration record as fetch_gpu_prices builds it.                   *)
(***************************************************************************)
Config(price, count, socket, provider, status) ==
    [gpu_count      |-> count,
     socket         |-> socket,
     provider       |-> provider,
     location       |-> "N/A",
     stock_status   |-> status,
     price_per_hour |-> price,
     is_spot        |-> FALSE]

(***************************************************************************)
(* Timestamps: datetime.now(timezone.utc).isoformat() and its readers.     *)
(***************************************************************************)
SecondsPerHour == 3600
ClockStep == SecondsPerHour \div 2
MaxTicks == 2        \* the clock stops after MaxTicks steps
MaxClock == MaxTicks * ClockStep
Instants == {k * ClockStep : k \in 0 .. MaxTicks}

\* an aware datetime is [t, tz]; a naive one is its seconds alone
isoformat(dt) == "T" \o ToString(dt.t) \o dt.tz
fromisoformat(text) ==
    CHOOSE dt \in [t : Instants, tz : {"+00:00"}] : isoformat(dt) = text
UtcNow == [t |-> clock, tz |-> "+00:00"]
StripTz(dt) == dt.t

\* format_timestamp: strftime drops the zone and prints a fixed "UTC"
format_timestamp(iso_timestamp) ==
    "T" \o ToString(fromisoformat(iso_timestamp).t) \o " UTC"

(***************************************************************************)
(* json.dumps / json.loads of one snapshot.  A line is a JSON object; the  *)
(* Python None of socket_type is the JSON null, a Python str a JSON string.*)
(***************************************************************************)
JsonNull == [json |-> "null"]
JsonString(str) == [json |-> "string", s |-> str]

json_dumps(snapshot) ==
    [snapshot EXCEPT !.socket_type =
        IF @ = NONE THEN JsonNull ELSE JsonString(@)]

json_loads(line) ==
    [line EXCEPT !.socket_type = IF @ = JsonNull THEN NONE ELSE @.s]

(***************************************************************************)
(* The summary directory.                                                  *)
(***************************************************************************)
EmptyDir == [f \in {} |-> <<>>]
Truthy(str) == str # NONE /\ str # ""

\* open(filepath, "a"); f.write(line + "\n")
AppendLine_AtFront(dir, f, line) ==
    IF f \in DOMAIN dir THEN [dir EXCEPT ![f] = <<line>> \o @]
    ELSE dir @@ (f :> <<line>>)
AppendLine(dir, f, line) ==
    IF f \in DOMAIN dir THEN [dir EXCEPT ![f] = Append(@, line)]
    ELSE dir @@ (f :> <<line>>)

SnapshotFile_NoSocket(gpu_type, socket_type) == gpu_type \o ".jsonl"
SnapshotFile(gpu_type, socket_type) ==
    IF Truthy(socket_type) THEN gpu_type \o "_" \o socket_type \o ".jsonl"
    ELSE gpu_type \o ".jsonl"

Snapshot(gpu_type, socket_type, timestamp, stats) ==
    [timestamp    |-> timestamp,
     gpu_type     |-> gpu_type,
     socket_type  |-> socket_type,
     price_stats  |-> stats.price_stats,
     availability |-> stats.availability,
     by_provider  |-> stats.by_provider,
     by_config    |-> stats.by_config]

save_snapshot(dir, gpu_type, socket_type, timestamp, stats) ==
    AppendLine(dir, SnapshotFile(gpu_type, socket_type),
               json_dumps(Snapshot(gpu_type, socket_type, timestamp, stats)))

LoadFile(gpu_type, socket_type) ==
    IF Truthy(socket_type) THEN gpu_type \o "_" \o socket_type \o ".jsonl"
    ELSE gpu_type \o ".jsonl"

load_snapshots(dir, gpu_type, socket_type) ==
    LET filepath == LoadFile(gpu_type, socket_type)
    IN  IF filepath \notin DOMAIN dir THEN <<>>
        ELSE [k \in 1 .. Len(dir[filepath]) |-> json_loads(dir[filepath][k])]

(***************************************************************************)
(* save_full_snapshot: one gzip document per run, named by its timestamp.  *)
(***************************************************************************)
FullSnapshotFile(timestamp) ==
    "T" \o ToString(fromisoformat(timestamp).t) \o ".json.gz"

\* full_snapshots is the sequence of documents written, each with its file
\* name; the directory holds, per name, the last one written
save_full_snapshot(written, timestamp, all_configs) ==
    Append(written,
           [file |-> FullSnapshotFile(timestamp),
            data |-> [timestamp |-> timestamp, configurations |-> all_configs]])

(***************************************************************************)
(* fetch_gpu_prices: what the availability client answers, and the         *)
(* configuration records built from it.                                    *)
(***************************************************************************)
ApiError == [tag |-> "error"]
ApiData(gpus) == [tag |-> "ok", gpus |-> gpus]

Offer(price, socket) ==
    [gpu_count    |-> 1,
     socket       |-> socket,
     provider     |-> "A",
     country      |-> NONE,
     stock_status |-> "Available",
     price        |-> price,
     is_spot      |-> FALSE]

ToConfig(gpu) ==
    [gpu_count      |-> gpu.gpu_count,
     socket         |-> IF Truthy(gpu.socket) THEN gpu.socket ELSE "N/A",
     provider       |-> IF Truthy(gpu.provider) THEN gpu.provider ELSE "unknown",
     location       |-> IF Truthy(gpu.country) THEN gpu.country ELSE "N/A",
     stock_status   |-> gpu.stock_status,
     price_per_hour |-> gpu.price,
     is_spot        |-> gpu.is_spot]

ToConfigs(gpus) == [k \in 1 .. Len(gpus) |-> ToConfig(gpus[k])]

fetch_gpu_prices_ErrorYieldsRecord(answer) ==
    IF answer.tag = "error" THEN <<ToConfig(Offer(Fin(PriceUnit), NONE))>>
    ELSE ToConfigs(answer.gpus)
fetch_gpu_prices(answer) ==
    IF answer.tag = "error" THEN <<>>
    ELSE ToConfigs(answer.gpus)

(***************************************************************************)
(* main(): one iteration of the loop over GPU_TYPES.                       *)
(***************************************************************************)
IsSocketSplit_Never(gpu_type) == FALSE
IsSocketSplit(gpu_type) == gpu_type \in DOMAIN SOCKET_TYPES_TO_TRACK

SocketConfigs_Unfiltered(configurations, socket_type) == configurations
SocketConfigs(configurations, socket_type) ==
    SelectSeq(configurations, LAMBDA c : c.socket = socket_type)

\* lines 268-271 and 257-260: aggregate, then save when there are stats;
\* an exception of the aggregator ends the run
AggregateAndSave(st, gpu_type, socket_type, timestamp, configs) ==
    LET stats == aggregate_statistics(configs)
    IN  IF stats.tag = "raise" THEN [st EXCEPT !.crashed = TRUE]
        ELSE IF stats.tag = "stats"
        THEN [st EXCEPT !.dir = save_snapshot(st.dir, gpu_type, socket_type,
                                              timestamp, stats)]
        ELSE st

RECURSIVE SocketLoop(_, _, _, _, _)
SocketLoop(st, gpu_type, socket_types, timestamp, configurations) ==
    IF socket_types = <<>> \/ st.crashed THEN st
    ELSE LET socket_type == Head(socket_types)
             socket_configs == SocketConfigs(configurations, socket_type)
             next == IF socket_configs = <<>> THEN st
                     ELSE AggregateAndSave(st, gpu_type, socket_type,
                                           timestamp, socket_configs)
         IN  SocketLoop(next, gpu_type, Tail(socket_types), timestamp,
                        configurations)

\* the state is [dir, all_configs, crashed]
Iteration(st, gpu_type, timestamp, configurations) ==
    IF configurations = <<>> THEN st
    ELSE LET kept == [st EXCEPT !.all_configs =
                        IF gpu_type \in DOMAIN @
                        THEN [@ EXCEPT ![gpu_type] = configurations]
                        ELSE @ @@ (gpu_type :> configurations)]
         IN  IF IsSocketSplit(gpu_type)
             THEN SocketLoop(kept, gpu_type, SOCKET_TYPES_TO_TRACK[gpu_type],
                             timestamp, configurations)
             ELSE AggregateAndSave(kept, gpu_type, NONE, timestamp,
                                   configurations)

(***************************************************************************)
(* Collector processes.                                                    *)
(***************************************************************************)
Models == {GPU_TYPES[i] : i \in 1 .. Len(GPU_TYPES)}
NoConfigs == [g \in {} |-> <<>>]
Idle == [pc |-> "idle", timestamp |-> isoformat([t |-> 0, tz |-> "+00:00"]),
         i |-> 1, all_configs |-> NoConfigs, launch |-> 0]
NotFetched == [tag |-> "pending"]
Active(r) == runs[r].pc \in {"loop", "finish"}

\* line 227: the clock is read once, before the loop
RunTimestamp_AtAppend(r) == isoformat(UtcNow)
RunTimestamp(r) == runs[r].timestamp

\* python track_prices_efficient.py: lines 226-230
Launch(r) ==
    /\ runs' = [runs EXCEPT ![r] = [pc |-> "loop", timestamp |-> isoformat(UtcNow),
                                    i |-> 1, all_configs |-> NoConfigs,
                                    launch |-> @.launch + 1]]
    /\ fetched' = [fetched EXCEPT ![r] = [g \in Models |-> NotFetched]]
    /\ UNCHANGED <<files, full_snapshots, clock, appended, agg_in, agg_out>>

Start(r) ==
    /\ runs[r].pc = "idle"
    /\ Launch(r)
    /\ UNCHANGED view_out

ProcessModel(r, api) ==
    /\ runs[r].pc = "loop"
    /\ LET gpu_type == GPU_TYPES[runs[r].i]
       IN  \E answer \in api[gpu_type] :
             LET configurations == fetch_gpu_prices(answer)
                 st == Iteration([dir |-> files,
                                  all_configs |-> runs[r].all_configs,
                                  crashed |-> FALSE],
                                 gpu_type, RunTimestamp(r), configurations)
             IN  /\ files' = st.dir
                 /\ fetched' = [fetched EXCEPT ![r][gpu_type] = answer]
                 /\ runs' = [runs EXCEPT
                       ![r].all_configs = st.all_configs,
                       ![r].i = IF st.crashed THEN @ ELSE @ + 1,
                       ![r].pc = IF st.crashed THEN "crashed"
                                 ELSE IF runs[r].i = Len(GPU_TYPES)
                                 THEN "finish" ELSE "loop"]
    /\ UNCHANGED <<full_snapshots, clock, appended, agg_in, agg_out, view_out>>

\* line 277: if all_configs
ShouldWriteFull_Always(all_configs) == TRUE
ShouldWriteFull(all_configs) == all_configs # NoConfigs

\* lines 276-279
Finish(r) ==
    /\ runs[r].pc = "finish"
    /\ full_snapshots' =
          IF ShouldWriteFull(runs[r].all_configs)
          THEN save_full_snapshot(full_snapshots, runs[r].timestamp,
                                  runs[r].all_configs)
          ELSE full_snapshots
    /\ runs' = [runs EXCEPT ![r].pc = "done"]
    /\ UNCHANGED <<files, clock, fetched, appended, agg_in, agg_out, view_out>>

Tick ==
    /\ clock < MaxClock
    /\ clock' = clock + ClockStep
    /\ UNCHANGED <<files, full_snapshots, runs, fetched, appended,
                   agg_in, agg_out, view_out>>

(***************************************************************************)
(* The viewer: show_latest_prices and show_price_trend.                    *)
(***************************************************************************)
socket_tracked ==
    [g \in {"H100_80GB", "A100_80GB"} |->
        IF g = "H100_80GB" THEN <<"SXM5", "PCIe">> ELSE <<"SXM4", "PCIe">>]
DefaultLatest ==
    <<"B200_180GB", "H200_141GB", "H100_80GB", "GH200_96GB", "A100_80GB">>

Last(s) == s[Len(s)]

\* _print_gpu_details: the fields of the snapshot that reach the output
PrintDetails(latest) ==
    [last_updated |-> format_timestamp(latest.timestamp),
     total        |-> latest.availability.total,
     available    |-> latest.availability.available,
     min          |-> latest.price_stats.min,
     max          |-> latest.price_stats.max,
     mean         |-> latest.price_stats.mean,
     median       |-> latest.price_stats.median,
     p10          |-> latest.price_stats.p10,
     p90          |-> latest.price_stats.p90,
     by_provider  |-> latest.by_provider,
     by_config    |-> [k \in DOMAIN latest.by_config |->
                         [count       |-> latest.by_config[k].count,
                          min_per_gpu |-> latest.by_config[k].min_per_gpu,
                          min_total   |-> latest.by_config[k].min_total]]]

\* lines 62-69 and 71-78: nothing for an empty log, else the last snapshot
LatestOf(dir, gpu, socket) ==
    LET snapshots == load_snapshots(dir, gpu, socket)
    IN  IF snapshots = <<>> THEN <<>>
        ELSE <<[gpu |-> gpu, socket |-> socket,
                details |-> PrintDetails(Last(snapshots))]>>

RECURSIVE LatestOfSockets(_, _, _)
LatestOfSockets(dir, gpu, sockets) ==
    IF sockets = <<>> THEN <<>>
    ELSE LatestOf(dir, gpu, Head(sockets))
            \o LatestOfSockets(dir, gpu, Tail(sockets))

RECURSIVE LatestOfModels(_, _)
LatestOfModels(dir, gpu_types) ==
    IF gpu_types = <<>> THEN <<>>
    ELSE LET gpu == Head(gpu_types)
         IN  (IF gpu \in DOMAIN socket_tracked
              THEN LatestOfSockets(dir, gpu, socket_tracked[gpu])
              ELSE LatestOf(dir, gpu, NONE))
                \o LatestOfModels(dir, Tail(gpu_types))

show_latest_prices(dir, gpu_type) ==
    LatestOfModels(dir, IF Truthy(gpu_type) THEN <<gpu_type>> ELSE DefaultLatest)

TrendRow(snap) ==
    [timestamp |-> format_timestamp(snap.timestamp),
     min       |-> snap.price_stats.min,
     median    |-> snap.price_stats.median,
     mean      |-> snap.price_stats.mean,
     max       |-> snap.price_stats.max,
     total     |-> snap.availability.total]

\* lines 121-125: hours_ago = (now - dt.replace(tzinfo=None)) / 3600 <= hours
InWindow(snap, now, hours) ==
    now - StripTz(fromisoformat(snap.timestamp)) <= hours * SecondsPerHour

\* now is datetime.now(): the naive local time
show_price_trend(dir, gpu_type, hours, now) ==
    LET snapshots == load_snapshots(dir, gpu_type, NONE)
        recent == SelectSeq(snapshots, LAMBDA snap : InWindow(snap, now, hours))
    IN  IF snapshots = <<>> THEN [text |-> "No data for", rows |-> <<>>]
        ELSE IF recent = <<>>
        THEN [text |-> "No data in the last", rows |-> <<>>]
        ELSE [text |-> "Timestamp", rows |-> [k \in 1 .. Len(recent) |-> TrendRow(recent[k])]]

(***************************************************************************)
(* Initial states.                                                         *)
(***************************************************************************)
Pending == [tag |-> "pending"]

InitStore ==
    /\ files = EmptyDir
    /\ full_snapshots = <<>>
    /\ clock = 0
    /\ appended = EmptyDir
    /\ view_out = Pending

InitRuns(n) ==
    /\ runs = [r \in 1 .. n |-> Idle]
    /\ fetched = [r \in 1 .. n |-> [g \in Models |-> NotFetched]]

InitIdleAggregator ==
    /\ agg_in = <<>>
    /\ agg_out = Pending

(***************************************************************************)
(* One collector run from an empty data directory, against a client whose  *)
(* answers range over errors, empty answers and short lists of offerings   *)
(* priced with a finite price or the infinite sentinel.                    *)
(***************************************************************************)
MaxOffers == 2       \* offerings in one answer for B200_180GB / H100_80GB

PlainOffers == {Offer(Fin(PriceUnit), NONE), Offer(INF, NONE)}
SplitOffers == {Offer(Fin(PriceUnit), "SXM5"), Offer(INF, "SXM5"),
                Offer(Fin(2 * PriceUnit), "PCIe"), Offer(Fin(PriceUnit), NONE)}

Answers(g) ==
    IF g = "B200_180GB" THEN SeqsUpTo(PlainOffers, MaxOffers)
    ELSE IF g = "H100_80GB" THEN SeqsUpTo(SplitOffers, MaxOffers)
    ELSE IF g = "A100_80GB"
    THEN {<<>>, <<Offer(Fin(PriceUnit), "SXM4")>>, <<Offer(INF, "PCIe")>>,
          <<Offer(Fin(PriceUnit), "PCIe"), Offer(Fin(PriceUnit), "SXM5")>>}
    ELSE {<<>>}

Client(g) == {ApiError} \cup {ApiData(gpus) : gpus \in Answers(g)}

Init ==
    /\ InitStore
    /\ InitRuns(1)
    /\ InitIdleAggregator

StartRun == \E r \in DOMAIN runs : Start(r)
FetchAndProcess ==
    \E r \in DOMAIN runs : ProcessModel(r, [g \in Models |-> Client(g)])
FinishRun == \E r \in DOMAIN runs : Finish(r)

Next == StartRun \/ FetchAndProcess \/ FinishRun

Spec == Init /\ [][Next]_vars

(***************************************************************************)
(* What one run was answered, read off the history of its fetches.         *)
(***************************************************************************)
Position(g) == CHOOSE i \in 1 .. Len(GPU_TYPES) : GPU_TYPES[i] = g
AllSockets == {"SXM5", "SXM4", "PCIe"}
TrackedKeys ==
    {<<g, NONE>> : g \in Models \ DOMAIN SOCKET_TYPES_TO_TRACK}
        \cup {<<g, SOCKET_TYPES_TO_TRACK[g][k]>> :
                g \in DOMAIN SOCKET_TYPES_TO_TRACK, k \in 1 .. 2}
AllKeys == Models \X ({NONE} \cup AllSockets)

Failed(r, g) == fetched[r][g] = ApiError
Returned(r, g) == IF fetched[r][g].tag = "ok" THEN fetched[r][g].gpus ELSE <<>>
\* the offerings of an answer that belong to a key
Belonging(gpus, socket_type) ==
    IF socket_type = NONE THEN gpus
    ELSE SelectSeq(gpus, LAMBDA gpu : gpu.socket = socket_type)
HasFinitePrice(gpus) == \E k \in 1 .. Len(gpus) : gpus[k].price.k = "fin"
LogOf(key) == load_snapshots(files, key[1], key[2])
RunOver(r) == runs[r].pc \in {"finish", "done"}

(***************************************************************************)
(* C2: a model whose fetch raised contributes nothing to the run (no line  *)
(* in any of its logs, no entry in the full snapshot), and the run goes    *)
(* on: every later model is fetched, and is recorded and logged from its   *)
(* own answer alone, whatever subset of the fetches failed.                *)
(***************************************************************************)
C2_FailedFetchIsSkipped ==
    \A g \in Models :
        Failed(1, g) =>
            /\ g \notin DOMAIN runs[1].all_configs
            /\ \A s \in {NONE} \cup AllSockets :
                  load_snapshots(files, g, s) = <<>>
            /\ \A k \in 1 .. Len(full_snapshots) :
                  g \notin DOMAIN full_snapshots[k].data.configurations
            /\ runs[1].pc # "crashed"
            /\ RunOver(1) \/ runs[1].i > Position(g)
            /\ RunOver(1) => \A h \in Models : fetched[1][h] # NotFetched
            /\ \A h \in Models :
                  (Position(h) > Position(g) /\ fetched[1][h] # NotFetched) =>
                      /\ h \in DOMAIN runs[1].all_configs <=> Returned(1, h) # <<>>
                      /\ \A key \in {t \in TrackedKeys : t[1] = h} :
                            Len(LogOf(key)) =
                              IF HasFinitePrice(Belonging(Returned(1, h), key[2]))
                              THEN 1 ELSE 0

C2_Witness ==
    /\ runs[1].pc = "done"
    /\ Failed(1, "B200_180GB") /\ Failed(1, "H200_141GB")
    /\ Failed(1, "GH200_624GB")
    /\ Len(LogOf(<<"H100_80GB", "SXM5">>)) = 1
    /\ Len(LogOf(<<"A100_80GB", "SXM4">>)) = 1

(***************************************************************************)
(* C3: in one run, every tracked key's log receives exactly one line when  *)
(* the fetched records belonging to the key include one with a finite      *)
(* price, and none otherwise; no other log is appended to.                 *)
(***************************************************************************)
C3_OneLinePerKeyWithFinitePrice ==
    /\ \A key \in TrackedKeys :
          Len(LogOf(key)) =
            IF HasFinitePrice(Belonging(Returned(1, key[1]), key[2]))
            THEN 1 ELSE 0
    /\ \A key \in AllKeys \ TrackedKeys : LogOf(key) = <<>>
    /\ DOMAIN files \subseteq {LoadFile(key[1], key[2]) : key \in TrackedKeys}

C3_Witness ==
    /\ runs[1].pc = "done"
    /\ Len(Returned(1, "B200_180GB")) = 2
    /\ ~HasFinitePrice(Returned(1, "B200_180GB"))
    /\ LogOf(<<"B200_180GB", NONE>>) = <<>>
    /\ HasFinitePrice(Belonging(Returned(1, "H100_80GB"), "PCIe"))
    /\ Belonging(Returned(1, "H100_80GB"), "SXM5") # <<>>
    /\ ~HasFinitePrice(Belonging(Returned(1, "H100_80GB"), "SXM5"))
    /\ Len(LogOf(<<"H100_80GB", "PCIe">>)) = 1
    /\ LogOf(<<"H100_80GB", "SXM5">>) = <<>>

ReturnedModels(r) == {g \in Models : Returned(r, g) # <<>>}

(***************************************************************************)
(* C4: a run writes a full snapshot iff some model's fetch returned at     *)
(* least one record; it is written once, after every model was processed,  *)
(* and maps exactly the models that returned records, each to all the      *)
(* records fetched for it (any socket, infinite prices included).          *)
(***************************************************************************)
C4_FullSnapshotOfReturnedModels ==
    /\ runs[1].pc # "done" => full_snapshots = <<>>
    /\ runs[1].pc = "done" =>
          /\ \A g \in Models : fetched[1][g] # NotFetched
          /\ ReturnedModels(1) = {} <=> full_snapshots = <<>>
          /\ ReturnedModels(1) # {} =>
                /\ Len(full_snapshots) = 1
                /\ full_snapshots[1].data.timestamp = runs[1].timestamp
                /\ DOMAIN full_snapshots[1].data.configurations
                      = ReturnedModels(1)
                /\ \A g \in ReturnedModels(1) :
                      full_snapshots[1].data.configurations[g]
                          = [k \in 1 .. Len(Returned(1, g)) |->
                                ToConfig(Returned(1, g)[k])]

C4_Witness ==
    /\ runs[1].pc = "done"
    /\ Len(full_snapshots) = 1
    /\ DOMAIN full_snapshots[1].data.configurations = {"H100_80GB"}
    /\ Len(full_snapshots[1].data.configurations["H100_80GB"]) = 2
    /\ \E k \in 1 .. 2 :
          /\ full_snapshots[1].data.configurations["H100_80GB"][k].socket = "N/A"
          /\ full_snapshots[1].data.configurations["H100_80GB"][3 - k]
                .price_per_hour = INF

(***************************************************************************)
(* Stand-alone calls of the aggregator.                                    *)
(***************************************************************************)
AggPrices == FinitePrices \cup {INF, NULL}
GeneralConfigs ==
    {Config(p, n, "SXM5", pr, st) :
        p \in AggPrices, n \in {1, 2}, pr \in {"A", "B"},
        st \in {"Available", "Low"}}
PricedConfigs ==
    {Config(p, n, "SXM5", "A", "Available") :
        p \in FinitePrices \cup {Fin(PriceUnit * (MaxPriceSteps + 1))},
        n \in {1, 2}}
AggInputs == SeqsUpTo(GeneralConfigs, MaxConfigs)
                \cup SeqsUpTo(PricedConfigs, MaxPrices)

InitRest ==
    /\ InitStore
    /\ InitRuns(0)

InitAgg ==
    /\ agg_in \in AggInputs
    /\ agg_out = Pending
    /\ InitRest

Aggregate ==
    /\ agg_out = Pending
    /\ agg_out' = aggregate_statistics(agg_in)
    /\ UNCHANGED <<files, full_snapshots, clock, runs, fetched, appended,
                   agg_in, view_out>>

NextAgg == Aggregate
SpecAgg == InitAgg /\ [][NextAgg]_vars

FiniteConfigs(configurations) ==
    SelectSeq(configurations, LAMBDA c : c.price_per_hour.k = "fin")

(***************************************************************************)
(* C6: for every input whose prices are finite, infinite or null, the      *)
(* aggregator returns normally, and what it returns is computed over       *)
(* exactly the records with a finite, non-null price: "no data" when there *)
(* is none, otherwise the statistics of those records alone.               *)
(***************************************************************************)
C6_AggregatesOverFiniteNonNull ==
    agg_out # Pending =>
        /\ agg_out.tag \in {"none", "stats"}
        /\ FiniteConfigs(agg_in) = <<>> => agg_out = NoData
        /\ FiniteConfigs(agg_in) # <<>> =>
              /\ agg_out.tag = "stats"
              /\ agg_out.availability.total = Len(FiniteConfigs(agg_in))
              /\ agg_out = aggregate_statistics(FiniteConfigs(agg_in))

AllFinite(configurations) ==
    /\ configurations # <<>>
    /\ \A i \in 1 .. Len(configurations) :
          /\ configurations[i].price_per_hour.k = "fin"
          /\ configurations[i].price_per_hour.v > 0

\* x is the element at 0-based index idx of the ascending arrangement of s
IsAtAscendingIndex(s, x, idx) ==
    /\ \E i \in 1 .. Len(s) : s[i] = x
    /\ Cardinality({j \in 1 .. Len(s) : RatLess(s[j], x)}) <= idx
    /\ idx < Cardinality({j \in 1 .. Len(s) : ~RatLess(x, s[j])})

PercentileIsNearestRank(configurations, value, p) ==
    LET prices == [k \in 1 .. Len(configurations) |->
                      PricePerGpu(configurations[k])]
        n == Len(prices)
        floor == CHOOSE k \in 0 .. n : 100 * k <= n * p /\ n * p < 100 * (k + 1)
    IN  \E i \in 1 .. n :
            /\ IsAtAscendingIndex(prices, prices[i], Min2(floor, n - 1))
            /\ value = Round2(prices[i])

(***************************************************************************)
(* C8: for every non-empty list of records with finite positive prices,    *)
(* min <= p10 <= p25 <= median <= p75 <= p90 <= max, and each percentile p *)
(* is the element at index min(floor(n*p/100), n-1) of the ascending list  *)
(* of per-GPU prices (rounded to cents).                                   *)
(***************************************************************************)
C8_PercentilesOrdered ==
    (agg_out # Pending /\ AllFinite(agg_in)) =>
        /\ agg_out.tag = "stats"
        /\ LET s == agg_out.price_stats
           IN  /\ s.min <= s.p10 /\ s.p10 <= s.p25 /\ s.p25 <= s.median
               /\ s.median <= s.p75 /\ s.p75 <= s.p90 /\ s.p90 <= s.max
               /\ PercentileIsNearestRank(agg_in, s.p10, 10)
               /\ PercentileIsNearestRank(agg_in, s.p25, 25)
               /\ PercentileIsNearestRank(agg_in, s.median, 50)
               /\ PercentileIsNearestRank(agg_in, s.p75, 75)
               /\ PercentileIsNearestRank(agg_in, s.p90, 90)

C8_Witness ==
    /\ agg_out # Pending
    /\ AllFinite(agg_in)
    /\ Len(agg_in) = 4
    /\ agg_out.tag = "stats"
    /\ agg_out.price_stats.p10 < agg_out.price_stats.p25
    /\ agg_out.price_stats.p25 < agg_out.price_stats.median
    /\ agg_out.price_stats.median < agg_out.price_stats.p75

(***************************************************************************)
(* Collector runs one after another, the clock never going back, and the   *)
(* trend view in between.  The client answers B200_180GB, H100_80GB and    *)
(* A100_80GB from a few short answers and the other models with nothing.   *)
(***************************************************************************)
MaxRuns == 2         \* collector runs in a sequence

FewAnswers(g) ==
    IF g = "B200_180GB"
    THEN {ApiError, ApiData(<<Offer(Fin(PriceUnit), NONE)>>)}
    ELSE IF g = "H100_80GB"
    THEN {ApiData(<<Offer(Fin(PriceUnit), "SXM5")>>),
          ApiData(<<Offer(Fin(PriceUnit), NONE), Offer(INF, "PCIe")>>)}
    ELSE IF g = "A100_80GB"
    THEN {ApiData(<<Offer(Fin(PriceUnit), "PCIe")>>)}
    ELSE {ApiData(<<>>)}

LocalOffsets == {0 - SecondsPerHour, 0, SecondsPerHour}
TrendArgs == {"B200_180GB", "H100_80GB"}
TrendHours == {0, 1}

\* the next run of the sequence starts when the one before it has ended;
\* view_out holds what the viewer printed since the last run started
SeqStart ==
    \E r \in DOMAIN runs :
        /\ runs[r].pc \in {"idle", "done"}
        /\ runs[r].launch < MaxRuns
        /\ Launch(r)
        /\ view_out' = Pending

\* time passing during a run changes nothing a run started later can see
SeqTick == (\A q \in DOMAIN runs : ~Active(q)) /\ Tick

SeqProcess ==
    \E r \in DOMAIN runs : ProcessModel(r, [g \in Models |-> FewAnswers(g)])

\* python view_prices.py trend GPU_TYPE HOURS, on a machine whose local time
\* is UTC + offset.  The viewer reads its clock later than the collector
\* read the timestamps it finds: two reads of the clock in one tick of the
\* model stand for two different instants, so the view waits for a tick.
ShowPriceTrend ==
    \E gpu_type \in TrendArgs, hours \in TrendHours, offset \in LocalOffsets :
        /\ \A q \in DOMAIN runs : runs[q].pc \in {"idle", "done"}
        /\ LET snapshots == load_snapshots(files, gpu_type, NONE)
           IN  \A k \in 1 .. Len(snapshots) :
                  fromisoformat(snapshots[k].timestamp).t < clock
        /\ view_out' = [cmd |-> "trend", gpu_type |-> gpu_type,
                        hours |-> hours, offset |-> offset,
                        out |-> show_price_trend(files, gpu_type, hours,
                                                 clock + offset)]
        /\ UNCHANGED <<files, full_snapshots, clock, runs, fetched, appended,
                       agg_in, agg_out>>

InitSeq ==
    /\ InitStore
    /\ InitRuns(1)
    /\ InitIdleAggregator

NextSeq == SeqStart \/ SeqProcess \/ FinishRun \/ SeqTick \/ ShowPriceTrend

SpecSeq == InitSeq /\ [][NextSeq]_vars

LineTime(line) == fromisoformat(json_loads(line).timestamp).t

(***************************************************************************)
(* C5: after any sequence of runs executed one after another with a        *)
(* non-decreasing clock, the timestamps of the lines of every log are      *)
(* non-decreasing from the first line to the last.                         *)
(***************************************************************************)
C5_LogsChronological ==
    \A f \in DOMAIN files :
        \A i, j \in 1 .. Len(files[f]) :
            i < j => LineTime(files[f][i]) <= LineTime(files[f][j])

C5_Witness ==
    /\ \A r \in DOMAIN runs : runs[r].pc = "done"
    /\ "B200_180GB.jsonl" \in DOMAIN files
    /\ Len(files["B200_180GB.jsonl"]) = 2
    /\ LineTime(files["B200_180GB.jsonl"][1])
          < LineTime(files["B200_180GB.jsonl"][2])

(***************************************************************************)
(* C7: the trend view with a window of 0 hours prints no record rows, for  *)
(* every non-empty log, current local time and local timezone offset.      *)
(***************************************************************************)
C7_ZeroWindowPrintsNoRows ==
    (view_out # Pending /\ view_out.cmd = "trend" /\ view_out.hours = 0)
        => view_out.out.rows = <<>>

(***************************************************************************)
(* C10: no run ever appends to the non-socket log of a model with          *)
(* designated sockets, so the trend view of such a model always reports    *)
(* that there is no data for it.                                           *)
(***************************************************************************)
C10_SplitModelHasNoTrend ==
    \A g \in DOMAIN SOCKET_TYPES_TO_TRACK :
        /\ load_snapshots(files, g, NONE) = <<>>
        /\ \A hours \in TrendHours, offset \in LocalOffsets :
              show_price_trend(files, g, hours, clock + offset).text
                  = "No data for"
        /\ (view_out # Pending /\ view_out.cmd = "trend"
              /\ view_out.gpu_type = g)
              => view_out.out = [text |-> "No data for", rows |-> <<>>]

C10_Witness ==
    /\ \A r \in DOMAIN runs : runs[r].pc = "done"
    /\ Len(load_snapshots(files, "H100_80GB", "SXM5")) = 2
    /\ Len(load_snapshots(files, "A100_80GB", "PCIe")) = 2
    /\ view_out # Pending
    /\ view_out.cmd = "trend"
    /\ view_out.gpu_type = "H100_80GB"
    /\ view_out.out.text = "No data for"

(***************************************************************************)
(* Two collector runs at once: nothing makes one wait for the other.       *)
(***************************************************************************)
ConcStart == \E r \in DOMAIN runs : Start(r)

InitConc ==
    /\ InitStore
    /\ InitRuns(2)
    /\ InitIdleAggregator

NextConc == ConcStart \/ SeqProcess \/ FinishRun \/ Tick

SpecConc == InitConc /\ [][NextConc]_vars

(***************************************************************************)
(* C9: with two runs at once nothing orders their appends: a run can      *)
(* start whatever the other run is doing, and every line carries the time  *)
(* its run read before the loop, not the time of the append; so a log can  *)
(* hold a line of the later run before a line of the earlier one.          *)
(***************************************************************************)
C9_AppendsUnordered ==
    /\ \A r \in DOMAIN runs : runs[r].pc = "idle" => ENABLED Start(r)
    /\ \A f \in DOMAIN files :
          \A k \in 1 .. Len(files[f]) :
              \E r \in DOMAIN runs :
                  /\ runs[r].pc # "idle"
                  /\ json_loads(files[f][k]).timestamp = runs[r].timestamp

C9_Witness ==
    /\ runs[1].pc = "done" /\ runs[2].pc = "done"
    /\ \E f \in DOMAIN files :
          /\ Len(files[f]) = 2
          /\ LineTime(files[f][1]) > LineTime(files[f][2])

(***************************************************************************)
(* The log writer and the readers alone: save_snapshot called with any     *)
(* key, timestamp and statistics, and the latest view.                     *)
(***************************************************************************)
MaxAppends == 2      \* calls of save_snapshot

LogKeys == {"B200_180GB", "H100_80GB"} \X {NONE, "SXM5", "PCIe"}
LogTimestamps == {isoformat([t |-> k * ClockStep, tz |-> "+00:00"]) : k \in 0 .. 1}
LogStats ==
    {aggregate_statistics(<<Config(Fin(PriceUnit), 1, "SXM5", "A", "Available")>>),
     aggregate_statistics(<<Config(Fin(PriceUnit), 2, "PCIe", "A", "Low"),
                            Config(Fin(3 * PriceUnit), 1, "PCIe", "B", "Available")>>)}
LatestArgs == {NONE, "B200_180GB", "H100_80GB"}

AppendedTo(key) == IF key \in DOMAIN appended THEN appended[key] ELSE <<>>
TotalAppended ==
    Cardinality({<<key, k>> \in LogKeys \X (1 .. MaxAppends) :
                    k <= Len(AppendedTo(key))})

SaveSnapshot ==
    \E key \in LogKeys, timestamp \in LogTimestamps, stats \in LogStats :
        /\ TotalAppended < MaxAppends
        /\ files' = save_snapshot(files, key[1], key[2], timestamp, stats)
        /\ appended' = AppendLine(appended, key,
                                  Snapshot(key[1], key[2], timestamp, stats))
        /\ UNCHANGED <<full_snapshots, clock, runs, fetched,
                       agg_in, agg_out, view_out>>

ShowLatestPrices ==
    \E gpu_type \in LatestArgs :
        /\ view_out' = [cmd |-> "latest", gpu_type |-> gpu_type,
                        out |-> show_latest_prices(files, gpu_type)]
        /\ UNCHANGED <<files, full_snapshots, clock, runs, fetched, appended,
                       agg_in, agg_out>>

InitLog ==
    /\ InitStore
    /\ InitRuns(0)
    /\ InitIdleAggregator

NextLog == SaveSnapshot \/ ShowLatestPrices

SpecLog == InitLog /\ [][NextLog]_vars

\* the keys the latest view reads for an argument
LatestKeys(gpu_type) ==
    LET shown == IF Truthy(gpu_type) THEN {gpu_type}
                 ELSE {DefaultLatest[k] : k \in 1 .. Len(DefaultLatest)}
    IN  {key \in LogKeys :
            /\ key[1] \in shown
            /\ AppendedTo(key) # <<>>
            /\ IF key[1] \in {"H100_80GB", "A100_80GB"}
               THEN key[2] # NONE ELSE key[2] = NONE}

====
